---- MODULE Spec2Model ----
(***************************************************************************)
(* Verification model of the genit iterator adapters.                      *)
(*                                                                         *)
(* Underlying cursors are modelled as integer positions into a base        *)
(* sequence (position p designates base element p, 0-based; position       *)
(* Len(base) is the base's end()).  A windowed cursor is the record the    *)
(* class stores: iterators_ (indexed 0..N-1 as in the code), offset_, and  *)
(* for the circular variant it_begin_, it_end_ and winding_.               *)
(***************************************************************************)
EXTENDS Integers, Sequences, FiniteSets, TLC

\* ------------------------------------------------------------------ bounds
MaxLen == 4        \* longest base sequence / sub-range considered
MaxN == 3          \* largest window size N
MaxTurns == 2      \* largest number of windings requested for end()

MaxRanges == 4     \* largest number K of concatenated sub-ranges
MaxSubLen == 2     \* longest concatenated sub-range
MaxWrites == 2     \* most assignments through windows in one traversal
MaxEvents == 4     \* cached cursor: most dereferences and copies between two moves

LoopCap == MaxTurns * MaxLen + 2   \* cap on range-for iterations (runaway guard)
ConcatLoopCap == MaxRanges * MaxSubLen + 2

\* ------------------------------------------------------- program constants
kInvalidWinding == 666000

VARIABLES
  circular,   \* windowed: FALSE = AdjacentIterator, TRUE = AdjacentCircularIterator
  windings,   \* windowed: the winding argument the circular end() was built with
  N,          \* windowed: the template parameter N (window size)
  base,       \* windowed: the base sequence the range was built over
  category,   \* concat: iterator category of the sub-ranges' cursors
  concat,     \* concat: the ConcatRange object (ranges_, accumulated_sizes_)
  rng,        \* caller: the [begin_, end_] pair obtained from the range
  it,         \* caller: the cursor being driven
  other,      \* caller: a copy of the cursor taken earlier ("auto copy = it;")
  pc,         \* caller: "walk" (free stepping), "loop" (range-for), "done"
  last,       \* caller: the operation applied last, with its argument
  seen,       \* caller: what the range-for loop has dereferenced so far
  writes,     \* caller: the assignments the loop body made through a window
  crange,     \* circular: the CircularRangeT object (base range, windings_, connect_)
  derived,    \* facade: the class the operators of IteratorFacade are applied to
  frange,     \* filter: the FilteredRange object (base range, pred_)
  underlying, \* cached: the sequence the underlying (lazy) cursor runs over
  invocation_count, \* cached: how often the underlying cursor was dereferenced
  zranges,    \* zip: the ranges handed to ZipRange
  nranges     \* nested: the ranges handed to NestRanges

varsW == <<circular, windings, N, base>>
varsC == <<category, concat>>
varsK == <<underlying, invocation_count>>
varsO == <<writes, crange, derived, frange, varsK, zranges, nranges>>
vars == <<varsW, varsC, varsO, rng, it, other, pc, last, seen>>

\* Value of the variables of an adapter the specification at hand does not use.
Idle == "idle"

NoCursor == [none |-> TRUE]
Op(name, n) == [op |-> name, n |-> n]

\* ------------------------------------------------------------ base inputs
\* The adapters never inspect element values, so bases of every length with
\* pairwise distinct elements are drawn: a window read at a wrong position
\* is then visible in the value read.
BaseSeqs == { [p \in 1..L |-> 10 + p] : L \in 0..MaxLen }

\* *iter for an underlying cursor at position p (valid for 0 <= p < Len(b)).
\* Reading any other position is undefined; the windowed ranges never do so
\* (WindowReadsValid below), the marker only keeps the operator total.
Valid(b, p) == p >= 0 /\ p < Len(b)
Star(b, p) == IF Valid(b, p) THEN b[p + 1] ELSE "indeterminate"

\* ====================================================== AdjacentIterator
\* GuardedPostIncrement applied n times in braced-init order: returns the
\* sequence of previous positions.
RECURSIVE GuardedFill(_, _, _)
GuardedFill(p, it_end, n) ==
  IF n = 0 THEN <<>>
  ELSE <<p>> \o GuardedFill(IF p # it_end THEN p + 1 ELSE p, it_end, n - 1)

\* AdjacentIterator(it, it_end)
AdjBeginCtor(p, it_end) ==
  LET filled == GuardedFill(p, it_end, N)
  IN [iterators_ |-> [k \in 0..(N - 1) |-> filled[k + 1]], offset_ |-> 0]

\* explicit AdjacentIterator(it): the sentinel form
AdjEndCtor(p) == [iterators_ |-> [k \in 0..(N - 1) |-> p], offset_ |-> 0]

BackIterator(c) == c.iterators_[(c.offset_ + N - 1) % N]

\* ValueArrayProxy: data_[k] = *iterators[k]; operator[](i) = data_[(i+offset_) % N]
ProxyAt(b, c, i) == Star(b, c.iterators_[(i + c.offset_) % N])
AdjDereference(b, c) == [i \in 0..(N - 1) |-> ProxyAt(b, c, i)]

\* Mutant: operator[] ignores offset_.
ProxyCellNoOffset(c, i) == c.iterators_[i]

\* Lvalue base cursor: data_[k] = &*iterators[k], and operator[](i) is
\* *data_[(i + offset_) % N].  The base position element i of the proxy refers to.
ProxyCell(c, i) == c.iterators_[(i + c.offset_) % N]
Dereferenceable(b, c) == \A k \in 0..(N - 1) : Valid(b, c.iterators_[k])

\* Mutant: the vacated slot is stepped in place, the trailing cursor is not
\* duplicated into it first.
AdjIncrementNoDup(c) ==
  [iterators_ |-> [c.iterators_ EXCEPT ![c.offset_] = c.iterators_[c.offset_] + 1],
   offset_ |-> (c.offset_ + 1) % N]

AdjIncrement(c) ==
  LET trailing_id == (c.offset_ + N - 1) % N
      dup == [c.iterators_ EXCEPT ![c.offset_] = c.iterators_[trailing_id]]
      inc == [dup EXCEPT ![c.offset_] = dup[c.offset_] + 1]
  IN [iterators_ |-> inc, offset_ |-> (c.offset_ + 1) % N]

AdjDecrement(c) ==
  LET trailing_id == (c.offset_ + N - 1) % N
      dup == [c.iterators_ EXCEPT ![trailing_id] = c.iterators_[c.offset_]]
      dec == [dup EXCEPT ![trailing_id] = dup[trailing_id] - 1]
  IN [iterators_ |-> dec, offset_ |-> trailing_id]

AdjIsEqual(a, b) == BackIterator(b) = BackIterator(a)

AdjDistanceTo(a, b) == BackIterator(b) - BackIterator(a)

AdjAdvance(c, n) ==
  [iterators_ |-> [k \in 0..(N - 1) |-> c.iterators_[k] + n], offset_ |-> c.offset_]

\* AdjacentElementsRange<N>(range)
AdjacentElementsRange(b) ==
  [begin_ |-> AdjBeginCtor(0, Len(b)), end_ |-> AdjEndCtor(Len(b))]

\* ============================================== AdjacentCircularIterator
\* Mutant: no check for a range smaller than N.
CircCtorNoGuard(p, it_end, winding) ==
  [base_iter_ |-> AdjBeginCtor(p, it_end), it_begin_ |-> p, it_end_ |-> it_end,
   winding_ |-> winding]

\* AdjacentCircularIterator(it, it_end, winding)
CircCtor(p, it_end, winding) ==
  LET b == AdjBeginCtor(p, it_end)
  IN [base_iter_ |-> b, it_begin_ |-> p, it_end_ |-> it_end,
      winding_ |-> IF \E k \in 0..(N - 1) : b.iterators_[k] = it_end
                   THEN kInvalidWinding ELSE winding]

FrontIterator(c) == c.base_iter_.iterators_[c.base_iter_.offset_]

CircDereference(b, c) == AdjDereference(b, c.base_iter_)

\* Mutant: the wrapped cursor is reset to it_begin_ but winding_ is not stepped.
CircIncrementNoWinding(c) ==
  LET b == c.base_iter_
      trailing_id == (b.offset_ + N - 1) % N
      moved == b.iterators_[trailing_id] + 1
      its == [b.iterators_ EXCEPT
                ![b.offset_] = IF moved = c.it_end_ THEN c.it_begin_ ELSE moved]
  IN [c EXCEPT !.base_iter_ = [iterators_ |-> its, offset_ |-> (b.offset_ + 1) % N]]

CircIncrement(c) ==
  LET b == c.base_iter_
      trailing_id == (b.offset_ + N - 1) % N
      moved == b.iterators_[trailing_id] + 1
      wrapped == moved = c.it_end_
      its == [b.iterators_ EXCEPT ![b.offset_] = IF wrapped THEN c.it_begin_ ELSE moved]
  IN [c EXCEPT !.base_iter_ = [iterators_ |-> its, offset_ |-> (b.offset_ + 1) % N],
               !.winding_ = IF wrapped THEN c.winding_ + 1 ELSE c.winding_]

\* Mutant: the leading cursor at it_begin_ is stepped back without being set
\* to it_end_ first.
CircDecrementNoWrap(c) ==
  LET b == c.base_iter_
      trailing_id == (b.offset_ + N - 1) % N
      dup == b.iterators_[b.offset_]
      its == [b.iterators_ EXCEPT ![trailing_id] = dup - 1]
  IN [c EXCEPT !.base_iter_ = [iterators_ |-> its, offset_ |-> trailing_id],
               !.winding_ = IF dup = c.it_begin_ THEN c.winding_ - 1 ELSE c.winding_]

CircDecrement(c) ==
  LET b == c.base_iter_
      trailing_id == (b.offset_ + N - 1) % N
      dup == b.iterators_[b.offset_]
      wrapped == dup = c.it_begin_
      its == [b.iterators_ EXCEPT ![trailing_id] = (IF wrapped THEN c.it_end_ ELSE dup) - 1]
  IN [c EXCEPT !.base_iter_ = [iterators_ |-> its, offset_ |-> trailing_id],
               !.winding_ = IF wrapped THEN c.winding_ - 1 ELSE c.winding_]

\* Mutant: the front cursors alone decide.
CircIsEqualFrontOnly(a, rhs) == FrontIterator(a) = FrontIterator(rhs)

CircIsEqual(a, rhs) ==
  FrontIterator(a) = FrontIterator(rhs) /\ a.winding_ = rhs.winding_

CircDistanceTo(a, rhs) ==
  FrontIterator(rhs) - FrontIterator(a)
    + (rhs.winding_ - a.winding_) * (a.it_end_ - a.it_begin_)

\* while (iter >= it_end_) iter = (iter - it_end_) + it_begin_;  -> <<iter, #rounds>>
RECURSIVE WrapHigh(_, _, _)
WrapHigh(p, b, e) ==
  IF p >= e THEN LET r == WrapHigh((p - e) + b, b, e) IN <<r[1], r[2] + 1>>
  ELSE <<p, 0>>

\* while (iter < it_begin_) iter = it_end_ - (it_begin_ - iter);  -> <<iter, #rounds>>
RECURSIVE WrapLow(_, _, _)
WrapLow(p, b, e) ==
  IF p < b THEN LET r == WrapLow(e - (b - p), b, e) IN <<r[1], r[2] + 1>>
  ELSE <<p, 0>>

\* Mutant: every stored cursor that wraps steps winding_, not only the
\* trailing (upward) and the leading (downward) one.
AdvanceSlotEveryCursor(c, n, k) ==
  LET hi == WrapHigh(c.base_iter_.iterators_[k] + n, c.it_begin_, c.it_end_)
      lo == WrapLow(hi[1], c.it_begin_, c.it_end_)
  IN [c EXCEPT !.base_iter_.iterators_[k] = lo[1],
               !.winding_ = c.winding_ + hi[2] - lo[2]]

\* Mutant: an upward wrap steps winding_ when the slot is the leading one.
AdvanceSlotFrontCounts(c, n, k) ==
  LET b == c.base_iter_
      hi == WrapHigh(b.iterators_[k] + n, c.it_begin_, c.it_end_)
      lo == WrapLow(hi[1], c.it_begin_, c.it_end_)
      up == IF k = b.offset_ THEN hi[2] ELSE 0
      down == IF k = b.offset_ THEN lo[2] ELSE 0
  IN [c EXCEPT !.base_iter_.iterators_[k] = lo[1],
               !.winding_ = c.winding_ + up - down]

\* One round of the range-for over base_iter_.iterators_ in Advance, for the
\* array slot k: the slot is moved and renormalised, winding_ is touched only
\* when the slot is the trailing (upward) or the leading (downward) one.
AdvanceSlot(c, n, k) ==
  LET b == c.base_iter_
      backId == (b.offset_ + N - 1) % N
      hi == WrapHigh(b.iterators_[k] + n, c.it_begin_, c.it_end_)
      lo == WrapLow(hi[1], c.it_begin_, c.it_end_)
      up == IF k = backId THEN hi[2] ELSE 0
      down == IF k = b.offset_ THEN lo[2] ELSE 0
  IN [c EXCEPT !.base_iter_.iterators_[k] = lo[1],
               !.winding_ = c.winding_ + up - down]

RECURSIVE AdvanceSlots(_, _, _)
AdvanceSlots(c, n, k) ==
  IF k = N THEN c ELSE AdvanceSlots(AdvanceSlot(c, n, k), n, k + 1)

CircAdvance(c, n) == AdvanceSlots(c, n, 0)

\* AdjIter(begin, end) and AdjIter(begin, end, w): the circular range whose
\* end() is w windings after begin() (the wrapper function passes w = 1).
AdjacentElementsCircularRange(b, w) ==
  [begin_ |-> CircCtor(0, Len(b), 0), end_ |-> CircCtor(0, Len(b), w)]

\* ================================================== IteratorFacade dispatch
Dereference(b, c) == IF circular THEN CircDereference(b, c) ELSE AdjDereference(b, c)
Increment(c) == IF circular THEN CircIncrement(c) ELSE AdjIncrement(c)
Decrement(c) == IF circular THEN CircDecrement(c) ELSE AdjDecrement(c)
IsEqual(a, b) == IF circular THEN CircIsEqual(a, b) ELSE AdjIsEqual(a, b)
DistanceTo(a, b) == IF circular THEN CircDistanceTo(a, b) ELSE AdjDistanceTo(a, b)
Advance(c, n) == IF circular THEN CircAdvance(c, n) ELSE AdjAdvance(c, n)
Slots(c) == IF circular THEN c.base_iter_ ELSE c

\* operator-(destination, source) and operator<(lhs, rhs) of the facade.
OperatorMinus(destination, source) == DistanceTo(source, destination)
OperatorLess(lhs, rhs) == OperatorMinus(lhs, rhs) < 0

\* ===================================================== windowed: the caller
InitW ==
  /\ circular \in BOOLEAN
  /\ N \in 1..MaxN
  /\ base \in BaseSeqs
  /\ windings \in IF circular THEN 0..MaxTurns ELSE {0}
  /\ rng = IF circular THEN AdjacentElementsCircularRange(base, windings)
                       ELSE AdjacentElementsRange(base)
  /\ it = rng.begin_
  /\ other = NoCursor
  /\ pc \in {"walk", "loop"}
  /\ last = Op("begin", 0)
  /\ seen = <<>>
  /\ writes = <<>>
  /\ category = Idle /\ concat = Idle
  /\ crange = Idle
  /\ derived = Idle
  /\ frange = Idle
  /\ underlying = Idle /\ invocation_count = Idle
  /\ zranges = Idle
  /\ nranges = Idle

\* for (auto window : range) { ... }   ==   while (it != end) { *it; ++it; }
LoopBody ==
  /\ pc = "loop"
  /\ ~IsEqual(it, rng.end_)
  /\ Len(seen) < LoopCap
  /\ seen' = Append(seen, Dereference(base, it))
  /\ it' = Increment(it)
  /\ last' = Op("inc", 0)
  /\ UNCHANGED <<varsW, varsC, varsO, rng, other, pc>>

LoopExit ==
  /\ pc = "loop"
  /\ IsEqual(it, rng.end_)
  /\ pc' = "done"
  /\ last' = Op("exit", 0)
  /\ UNCHANGED <<varsW, varsC, varsO, rng, it, other, seen>>

\* Free stepping is confined to what the caller may do: a linear cursor keeps
\* every stored position inside [begin, end] of the base; a circular cursor
\* may run past end() and before begin(), cut off one winding beyond each.
Confined(c) ==
  IF circular THEN c.winding_ >= -1 /\ c.winding_ <= windings + 1
  ELSE \A k \in 0..(N - 1) : c.iterators_[k] >= 0 /\ c.iterators_[k] <= Len(base)

Walking == pc = "walk" /\ Len(base) >= N

OpIncrement ==
  /\ Walking
  /\ circular \/ ~IsEqual(it, rng.end_)
  /\ Confined(Increment(it))
  /\ it' = Increment(it)
  /\ last' = Op("inc", 0)
  /\ UNCHANGED <<varsW, varsC, varsO, rng, other, pc, seen>>

OpDecrement ==
  /\ Walking
  /\ circular \/ ~IsEqual(it, rng.begin_)
  /\ Confined(Decrement(it))
  /\ it' = Decrement(it)
  /\ last' = Op("dec", 0)
  /\ UNCHANGED <<varsW, varsC, varsO, rng, other, pc, seen>>

AdvanceArgs ==
  LET reach == (IF windings > 1 THEN windings ELSE 1) * Len(base) + 1
  IN (0 - reach)..reach

OpAdvance ==
  /\ Walking
  /\ \E n \in AdvanceArgs :
       /\ Confined(Advance(it, n))
       /\ it' = Advance(it, n)
       /\ last' = Op("adv", n)
  /\ UNCHANGED <<varsW, varsC, varsO, rng, other, pc, seen>>

Copy ==
  /\ Walking
  /\ other' = it
  /\ last' = Op("copy", 0)
  /\ UNCHANGED <<varsW, varsC, varsO, rng, it, pc, seen>>

TakeBegin ==
  /\ Walking
  /\ it' = rng.begin_
  /\ last' = Op("begin", 0)
  /\ UNCHANGED <<varsW, varsC, varsO, rng, other, pc, seen>>

TakeEnd ==
  /\ Walking
  /\ it' = rng.end_
  /\ last' = Op("end", 0)
  /\ UNCHANGED <<varsW, varsC, varsO, rng, other, pc, seen>>

NextW == LoopBody \/ LoopExit \/ OpIncrement \/ OpDecrement \/ OpAdvance
           \/ TakeBegin \/ TakeEnd

\* One cursor: the range-for loop and free stepping.
SpecWindowed == InitW /\ [][NextW]_vars

\* Two cursors: free stepping over the range the wrapper functions return
\* (one winding), and the caller may keep a copy of the cursor.
InitPairs == InitW /\ pc = "walk" /\ (circular => windings = 1)

NextPairs == OpIncrement \/ OpDecrement \/ OpAdvance \/ Copy \/ TakeBegin \/ TakeEnd

SpecWindowedPairs == InitPairs /\ [][NextPairs]_vars

\* The range-for loop whose body assigns through the window:
\*   for (auto window : range) { ...; window[j] = v; }
\* The proxy holds the addresses of the base elements, so the elements are
\* read from, and the assignment goes to, the base sequence itself.  The
\* value assigned by window i through element j is unique to (i, j).
WriteValue(i, j) == 100 * (i + 1) + j

\* The range is the one the wrapper functions return (one winding).
InitWrite == InitW /\ pc = "loop" /\ Len(base) >= N /\ (circular => windings = 1)

LoopBodyRead ==
  /\ pc = "loop"
  /\ ~IsEqual(it, rng.end_)
  /\ Len(seen) < LoopCap
  /\ seen' = Append(seen, [i \in 0..(N - 1) |-> Star(base, ProxyCell(Slots(it), i))])
  /\ it' = Increment(it)
  /\ last' = Op("inc", 0)
  /\ UNCHANGED <<varsW, varsC, varsO, rng, other, pc>>

LoopBodyWrite ==
  /\ pc = "loop"
  /\ ~IsEqual(it, rng.end_)
  /\ Len(seen) < LoopCap
  /\ Len(writes) < MaxWrites
  /\ seen' = Append(seen, [i \in 0..(N - 1) |-> Star(base, ProxyCell(Slots(it), i))])
  /\ \E j \in 0..(N - 1) :
       /\ base' = [base EXCEPT ![ProxyCell(Slots(it), j) + 1] = WriteValue(Len(seen), j)]
       /\ writes' = Append(writes, [window |-> Len(seen), elem |-> j,
                                    value |-> WriteValue(Len(seen), j)])
       /\ last' = Op("write", j)
  /\ it' = Increment(it)
  /\ UNCHANGED <<circular, windings, N, varsC, crange, derived, frange, varsK, zranges, nranges,
               rng, other, pc>>

NextWrite == LoopBodyRead \/ LoopBodyWrite \/ LoopExit

SpecWindowedWrite == InitWrite /\ [][NextWrite]_vars

\* ============================================================ ConcatRange
\* A ConcatRange object r is [ranges_, accumulated_sizes_]; sub-range Id
\* (0-based, as the variant index) is r.ranges_[Id + 1].  A ConcatIterator is
\* its variant it_: [index |-> Id, pos |-> position in sub-range Id].
kNumberOfRanges(r) == Len(r.ranges_)
SizeOfRange(r, Id) == Len(r.ranges_[Id + 1])
RangeIsEmpty(r, Id) == 0 = SizeOfRange(r, Id)
BeginOf(r, Id) == 0
EndOf(r, Id) == SizeOfRange(r, Id)

\* The sub-ranges' cursors.  ++ and -- inside [begin, end] are the usual
\* steps.  ++ on a cursor that is already at its range's end is outside the
\* cursor's contract: a counter or a pointer (random access) moves one past
\* the end, a node cursor of a doubly linked list (bidirectional) follows the
\* sentinel's link to the first node.
SubIncrement(r, Id, p) ==
  IF p # EndOf(r, Id) THEN p + 1
  ELSE IF category = "random_access" THEN p + 1 ELSE BeginOf(r, Id)
SubDecrement(r, Id, p) == p - 1

\* ConcatRange::SetAccumulatedSizes: the running sum, stored per sub-range
\* (random access only; None otherwise).
RECURSIVE AccumulateSizes(_, _)
AccumulateSizes(ranges, k) ==
  IF k = 0 THEN 0 ELSE AccumulateSizes(ranges, k - 1) + Len(ranges[k])

ConcatRangeCtor(ranges) ==
  [ranges_ |-> ranges,
   accumulated_sizes_ |->
     IF category = "random_access"
     THEN [Id \in 0..(Len(ranges) - 1) |-> AccumulateSizes(ranges, Id + 1)]
     ELSE "None"]

\* Increment<Id>: <<it_, finished>>
IncrementAt(r, c, Id) ==
  IF Id = kNumberOfRanges(r) - 1
  THEN <<[c EXCEPT !.pos = SubIncrement(r, Id, c.pos)], TRUE>>
  ELSE LET lastp == EndOf(r, Id)
           p == IF c.pos # lastp THEN SubIncrement(r, Id, c.pos) ELSE c.pos
       IN IF p = lastp
          THEN <<[index |-> Id + 1, pos |-> BeginOf(r, Id + 1)],
                 (Id + 2 = kNumberOfRanges(r)) \/ ~RangeIsEmpty(r, Id + 1)>>
          ELSE <<[c EXCEPT !.pos = p], TRUE>>

\* The fold (Ids >= variant_index && Increment<Ids>()) || ... from Id on.
RECURSIVE IncrementFold(_, _, _)
IncrementFold(r, c, Id) ==
  IF Id >= kNumberOfRanges(r) THEN c
  ELSE LET res == IncrementAt(r, c, Id)
       IN IF res[2] THEN res[1] ELSE IncrementFold(r, res[1], Id + 1)

ConcatIncrement(r, c) == IncrementFold(r, c, c.index)

\* Mutant: at a sub-range's begin the cursor is retagged to the previous
\* sub-range's end and left there (no further skip, no step back).
DecrementAtNoSkip(r, c, Id) ==
  IF Id # 0 /\ c.pos = BeginOf(r, Id)
  THEN <<[index |-> Id - 1, pos |-> EndOf(r, Id - 1)], TRUE>>
  ELSE <<[c EXCEPT !.pos = SubDecrement(r, Id, c.pos)], TRUE>>

\* Decrement<Id>: <<it_, finished>>
DecrementAt(r, c, Id) ==
  IF Id # 0 /\ c.pos = BeginOf(r, Id)
  THEN <<[index |-> Id - 1, pos |-> EndOf(r, Id - 1)], FALSE>>
  ELSE <<[c EXCEPT !.pos = SubDecrement(r, Id, c.pos)], TRUE>>

\* The fold (variant_index >= Id && Decrement<Id>()) || ... from Id downwards.
RECURSIVE DecrementFold(_, _, _)
DecrementFold(r, c, Id) ==
  IF Id < 0 THEN c
  ELSE LET res == DecrementAt(r, c, Id)
       IN IF res[2] THEN res[1] ELSE DecrementFold(r, res[1], Id - 1)

ConcatDecrement(r, c) == DecrementFold(r, c, c.index)

\* ConcatIterator(BeginTag, range)
ConcatBeginCtor(r) ==
  LET c == [index |-> 0, pos |-> BeginOf(r, 0)]
  IN IF RangeIsEmpty(r, 0) THEN ConcatIncrement(r, c) ELSE c

\* ConcatIterator(EndTag, range)
ConcatEndCtor(r) ==
  [index |-> kNumberOfRanges(r) - 1, pos |-> EndOf(r, kNumberOfRanges(r) - 1)]

ConcatIsEqual(a, b) == a = b

IndexOfIterator(r, c) ==
  r.accumulated_sizes_[c.index] - (EndOf(r, c.index) - c.pos)

\* Mutant: std::lower_bound, the offset of the first entry >= index.
UpperBoundNotStrict(r, index) ==
  Cardinality({Id \in 0..(kNumberOfRanges(r) - 1) : r.accumulated_sizes_[Id] < index})

\* std::upper_bound over accumulated_sizes_: offset of the first entry > index
UpperBound(r, index) ==
  Cardinality({Id \in 0..(kNumberOfRanges(r) - 1) : r.accumulated_sizes_[Id] <= index})

SetToIndex(r, index) ==
  LET ub == UpperBound(r, index)
      Id == IF ub < kNumberOfRanges(r) - 1 THEN ub ELSE kNumberOfRanges(r) - 1
      offset == r.accumulated_sizes_[Id] - SizeOfRange(r, Id)
  IN [index |-> Id, pos |-> BeginOf(r, Id) + (index - offset)]

ConcatDistanceTo(r, a, b) == IndexOfIterator(r, b) - IndexOfIterator(r, a)

ConcatAdvance(r, c, n) == SetToIndex(r, IndexOfIterator(r, c) + n)

\* Whether it_ designates an element of its sub-range / a position of it.
ConcatValid(r, c) == c.pos >= 0 /\ c.pos < SizeOfRange(r, c.index)
InStorage(r, c) == c.pos >= 0 /\ c.pos <= SizeOfRange(r, c.index)
ConcatDereference(r, c) == r.ranges_[c.index + 1][c.pos + 1]

\* ======================================================= concat: the caller
\* Sub-range k of rank K holds the elements 100*k + 1, 100*k + 2, ...: every
\* element of a concatenation is distinct.
SubRange(k, len) == [p \in 1..len |-> 100 * k + p]
RangeTuples ==
  UNION { { [k \in 1..K |-> SubRange(k, lens[k])] : lens \in [1..K -> 0..MaxSubLen] }
          : K \in 1..MaxRanges }
AllElements(r) == UNION { {r.ranges_[k][p] : p \in 1..Len(r.ranges_[k])} : k \in 1..Len(r.ranges_) }

InitC ==
  /\ category \in {"random_access", "bidirectional"}
  /\ \E ranges \in RangeTuples : concat = ConcatRangeCtor(ranges)
  /\ rng = [begin_ |-> ConcatBeginCtor(concat), end_ |-> ConcatEndCtor(concat)]
  /\ it = rng.begin_
  /\ other = NoCursor
  /\ pc \in {"walk", "loop"}
  /\ last = Op("begin", 0)
  /\ seen = <<>>
  /\ circular = Idle /\ windings = Idle /\ N = Idle /\ base = Idle
  /\ writes = Idle
  /\ crange = Idle
  /\ derived = Idle
  /\ frange = Idle
  /\ underlying = Idle /\ invocation_count = Idle
  /\ zranges = Idle
  /\ nranges = Idle

\* for (auto x : range) { ... }.  Reading through a cursor that designates no
\* element yields an indeterminate value.
ConcatLoopBody ==
  /\ pc = "loop"
  /\ ~ConcatIsEqual(it, rng.end_)
  /\ Len(seen) < ConcatLoopCap
  /\ \E x \in IF ConcatValid(concat, it) THEN {ConcatDereference(concat, it)}
              ELSE AllElements(concat) \cup {0} :
       seen' = Append(seen, x)
  /\ it' = ConcatIncrement(concat, it)
  /\ last' = Op("inc", 0)
  /\ UNCHANGED <<varsW, varsC, varsO, rng, other, pc>>

ConcatLoopExit ==
  /\ pc = "loop"
  /\ ConcatIsEqual(it, rng.end_)
  /\ pc' = "done"
  /\ last' = Op("exit", 0)
  /\ UNCHANGED <<varsW, varsC, varsO, rng, it, other, seen>>

\* Free stepping is confined to what the caller may do: no ++ at end(), no --
\* at begin(), no jump outside [begin, end], and no sub-range cursor taken
\* outside its sub-range.
ConcatOpIncrement ==
  /\ pc = "walk"
  /\ ~ConcatIsEqual(it, rng.end_)
  /\ InStorage(concat, ConcatIncrement(concat, it))
  /\ it' = ConcatIncrement(concat, it)
  /\ last' = Op("inc", 0)
  /\ UNCHANGED <<varsW, varsC, varsO, rng, other, pc, seen>>

ConcatOpDecrement ==
  /\ pc = "walk"
  /\ ~ConcatIsEqual(it, rng.begin_)
  /\ InStorage(concat, ConcatDecrement(concat, it))
  /\ it' = ConcatDecrement(concat, it)
  /\ last' = Op("dec", 0)
  /\ UNCHANGED <<varsW, varsC, varsO, rng, other, pc, seen>>

ConcatTotal(r) == AccumulateSizes(r.ranges_, Len(r.ranges_))

ConcatOpAdvance ==
  /\ pc = "walk"
  /\ category = "random_access"
  /\ \E n \in (0 - ConcatTotal(concat))..ConcatTotal(concat) :
       /\ IndexOfIterator(concat, it) + n >= 0
       /\ IndexOfIterator(concat, it) + n <= ConcatTotal(concat)
       /\ it' = ConcatAdvance(concat, it, n)
       /\ last' = Op("adv", n)
  /\ UNCHANGED <<varsW, varsC, varsO, rng, other, pc, seen>>

ConcatTakeBegin ==
  /\ pc = "walk"
  /\ it' = rng.begin_
  /\ last' = Op("begin", 0)
  /\ UNCHANGED <<varsW, varsC, varsO, rng, other, pc, seen>>

ConcatTakeEnd ==
  /\ pc = "walk"
  /\ it' = rng.end_
  /\ last' = Op("end", 0)
  /\ UNCHANGED <<varsW, varsC, varsO, rng, other, pc, seen>>

NextC == ConcatLoopBody \/ ConcatLoopExit \/ ConcatOpIncrement \/ ConcatOpDecrement
           \/ ConcatOpAdvance \/ ConcatTakeBegin \/ ConcatTakeEnd

SpecConcat == InitC /\ [][NextC]_vars

\* ========================================================= CircularIterator
\* A CircularRangeT object r is [base_range_, windings_, connect_]; a
\* CircularIterator over it is [base_iter_, winding_], base_iter_ a position
\* in r.base_range_.
BaseBegin(r) == 0
BaseEnd(r) == Len(r.base_range_)

\* Mutant: the winding of a cursor over an empty base is kept as requested.
CircularIteratorCtorKeepWinding(r, winding) ==
  [base_iter_ |-> BaseBegin(r), winding_ |-> winding]

\* CircularIterator(base_range, winding)
CircularIteratorCtor(r, winding) ==
  [base_iter_ |-> BaseBegin(r),
   winding_ |-> IF BaseBegin(r) = BaseEnd(r) THEN 0 ELSE winding]

CircularDereference(r, c) == r.base_range_[c.base_iter_ + 1]

\* Mutant: the cursor wraps to the base's begin without counting the turn.
CircularIncrementNoWinding(r, c) ==
  IF c.base_iter_ + 1 = BaseEnd(r)
  THEN [base_iter_ |-> BaseBegin(r), winding_ |-> c.winding_]
  ELSE [c EXCEPT !.base_iter_ = c.base_iter_ + 1]

CircularIncrement(r, c) ==
  IF c.base_iter_ + 1 = BaseEnd(r)
  THEN [base_iter_ |-> BaseBegin(r), winding_ |-> c.winding_ + 1]
  ELSE [c EXCEPT !.base_iter_ = c.base_iter_ + 1]

CircularDecrement(r, c) ==
  IF c.base_iter_ = BaseBegin(r)
  THEN [base_iter_ |-> BaseEnd(r) - 1, winding_ |-> c.winding_ - 1]
  ELSE [c EXCEPT !.base_iter_ = c.base_iter_ - 1]

CircularIsEqual(a, rhs) == a.base_iter_ = rhs.base_iter_ /\ a.winding_ = rhs.winding_

CircularDistanceTo(r, a, rhs) ==
  (rhs.base_iter_ - a.base_iter_)
    + (rhs.winding_ - a.winding_) * (BaseEnd(r) - BaseBegin(r))

\* int / int and int % int of the language: the quotient is truncated
\* towards zero and the remainder takes the sign of the dividend.
TruncDiv(a, b) == IF a >= 0 THEN a \div b ELSE 0 - ((0 - a) \div b)
TruncMod(a, b) == a - b * TruncDiv(a, b)

CircularAdvance(r, c, n) ==
  LET distance_from_begin == (c.base_iter_ + n) - BaseBegin(r)
      range_size == BaseEnd(r) - BaseBegin(r)
  IN [base_iter_ |-> BaseBegin(r)
                       + TruncMod(TruncMod(distance_from_begin, range_size) + range_size,
                                  range_size),
      winding_ |-> c.winding_ + TruncDiv(distance_from_begin, range_size)]

\* CircularRangeT::Begin / End
CircularRangeBegin(r) == CircularIteratorCtor(r, 0)

\* Mutant: the connecting element is not appended.
CircularRangeEndNoConnect(r) == CircularIteratorCtor(r, r.windings_)

CircularRangeEnd(r) ==
  LET e == CircularIteratorCtor(r, r.windings_)
  IN IF r.connect_ /\ ~CircularIsEqual(e, CircularRangeBegin(r))
     THEN CircularIncrement(r, e) ELSE e

\* The wrapper functions.
CircularRange(b, w) == [base_range_ |-> b, windings_ |-> w, connect_ |-> FALSE]
CircularConnectRange(b, w) == [base_range_ |-> b, windings_ |-> w, connect_ |-> TRUE]

\* ====================================================== circular: the caller
\* pc is "loop" (range-for), "rloop" (range-for over ReverseRange(range)),
\* "walk" (free stepping) or "done".
InitCircular ==
  /\ \E b \in BaseSeqs : \E w \in 0..MaxTurns :
       crange \in {CircularRange(b, w), CircularConnectRange(b, w)}
  /\ rng = [begin_ |-> CircularRangeBegin(crange), end_ |-> CircularRangeEnd(crange)]
  /\ pc \in {"walk", "loop", "rloop"}
  /\ it = IF pc = "rloop" THEN rng.end_ ELSE rng.begin_
  /\ other = NoCursor
  /\ last = Op(IF pc = "rloop" THEN "end" ELSE "begin", 0)
  /\ seen = <<>>
  /\ circular = Idle /\ windings = Idle /\ N = Idle /\ base = Idle
  /\ category = Idle /\ concat = Idle
  /\ writes = Idle
  /\ derived = Idle
  /\ frange = Idle
  /\ underlying = Idle /\ invocation_count = Idle
  /\ zranges = Idle
  /\ nranges = Idle

\* for (auto x : range) { ... }
CircularLoopBody ==
  /\ pc = "loop"
  /\ ~CircularIsEqual(it, rng.end_)
  /\ Len(seen) < LoopCap
  /\ seen' = Append(seen, CircularDereference(crange, it))
  /\ it' = CircularIncrement(crange, it)
  /\ last' = Op("inc", 0)
  /\ UNCHANGED <<varsW, varsC, varsO, rng, other, pc>>

\* for (auto x : ReverseRange(range)) { ... }: the reverse cursor wraps `it`,
\* reads *--copy and is stepped by --it.
CircularReverseLoopBody ==
  /\ pc = "rloop"
  /\ ~CircularIsEqual(it, rng.begin_)
  /\ Len(seen) < LoopCap
  /\ seen' = Append(seen, CircularDereference(crange, CircularDecrement(crange, it)))
  /\ it' = CircularDecrement(crange, it)
  /\ last' = Op("dec", 0)
  /\ UNCHANGED <<varsW, varsC, varsO, rng, other, pc>>

CircularLoopExit ==
  /\ \/ pc = "loop" /\ CircularIsEqual(it, rng.end_)
     \/ pc = "rloop" /\ CircularIsEqual(it, rng.begin_)
  /\ pc' = "done"
  /\ last' = Op(IF pc = "loop" THEN "exit" ELSE "rexit", 0)
  /\ UNCHANGED <<varsW, varsC, varsO, rng, it, other, seen>>

\* Free stepping needs a non-empty base (a cursor over an empty base
\* designates nothing and cannot be stepped), and is cut off one winding
\* before begin() and one beyond end().
CircularWalking == pc = "walk" /\ BaseBegin(crange) # BaseEnd(crange)
CircularConfined(c) == c.winding_ >= -1 /\ c.winding_ <= crange.windings_ + 2

CircularOpIncrement ==
  /\ CircularWalking
  /\ CircularConfined(CircularIncrement(crange, it))
  /\ it' = CircularIncrement(crange, it)
  /\ last' = Op("inc", 0)
  /\ UNCHANGED <<varsW, varsC, varsO, rng, other, pc, seen>>

CircularOpDecrement ==
  /\ CircularWalking
  /\ CircularConfined(CircularDecrement(crange, it))
  /\ it' = CircularDecrement(crange, it)
  /\ last' = Op("dec", 0)
  /\ UNCHANGED <<varsW, varsC, varsO, rng, other, pc, seen>>

CircularAdvanceArgs ==
  LET reach == (crange.windings_ + 1) * Len(crange.base_range_) + 1
  IN (0 - reach)..reach

CircularOpAdvance ==
  /\ CircularWalking
  /\ \E n \in CircularAdvanceArgs :
       /\ CircularConfined(CircularAdvance(crange, it, n))
       /\ it' = CircularAdvance(crange, it, n)
       /\ last' = Op("adv", n)
  /\ UNCHANGED <<varsW, varsC, varsO, rng, other, pc, seen>>

CircularTakeBegin ==
  /\ pc = "walk"
  /\ it' = rng.begin_
  /\ last' = Op("begin", 0)
  /\ UNCHANGED <<varsW, varsC, varsO, rng, other, pc, seen>>

CircularTakeEnd ==
  /\ pc = "walk"
  /\ it' = rng.end_
  /\ last' = Op("end", 0)
  /\ UNCHANGED <<varsW, varsC, varsO, rng, other, pc, seen>>

NextCircular ==
  CircularLoopBody \/ CircularReverseLoopBody \/ CircularLoopExit
    \/ CircularOpIncrement \/ CircularOpDecrement \/ CircularOpAdvance
    \/ CircularTakeBegin \/ CircularTakeEnd

SpecCircular == InitCircular /\ [][NextCircular]_vars

\* =========================================================== IteratorFacade
\* The operators IteratorFacade<Derived, ...> derives from the primitives of
\* Derived.  Derived is CounterIterator ([i_]) or CircularIterator.
CounterIterator(n) == [i_ |-> n]

DerivedDereference(c) ==
  IF derived = "CounterIterator" THEN c.i_ ELSE CircularDereference(crange, c)
DerivedIncrement(c) ==
  IF derived = "CounterIterator" THEN [c EXCEPT !.i_ = c.i_ + 1]
  ELSE CircularIncrement(crange, c)
DerivedDecrement(c) ==
  IF derived = "CounterIterator" THEN [c EXCEPT !.i_ = c.i_ - 1]
  ELSE CircularDecrement(crange, c)
DerivedIsEqual(a, rhs) ==
  IF derived = "CounterIterator" THEN a.i_ = rhs.i_ ELSE CircularIsEqual(a, rhs)

\* Each operator gives [self, result]: the operand after the call and the
\* value (or the referent of the reference) the call returns.
FacadePreIncrement(c) ==
  LET stepped == DerivedIncrement(c) IN [self |-> stepped, result |-> stepped]

\* Mutant: the snapshot is taken after the step.
FacadePostIncrementLateSnapshot(c) ==
  LET stepped == DerivedIncrement(c) IN [self |-> stepped, result |-> stepped]

FacadePostIncrement(c) ==
  LET old_it == c IN [self |-> DerivedIncrement(c), result |-> old_it]

FacadePreDecrement(c) ==
  LET stepped == DerivedDecrement(c) IN [self |-> stepped, result |-> stepped]

FacadePostDecrement(c) ==
  LET old_it == c IN [self |-> DerivedDecrement(c), result |-> old_it]

\* ======================================================== facade: the caller
\* `other` holds what the last operator returned ("auto other = it++;").
InitFacade ==
  /\ derived \in {"CounterIterator", "CircularIterator"}
  /\ IF derived = "CounterIterator"
     THEN /\ crange = Idle
          /\ rng = [begin_ |-> CounterIterator(0), end_ |-> CounterIterator(MaxLen)]
     ELSE /\ \E b \in BaseSeqs \ {<<>>} : \E w \in 1..MaxTurns : crange = CircularRange(b, w)
          /\ rng = [begin_ |-> CircularRangeBegin(crange), end_ |-> CircularRangeEnd(crange)]
  /\ it = rng.begin_
  /\ other = NoCursor
  /\ pc = "walk"
  /\ last = Op("begin", 0)
  /\ seen = <<>>
  /\ circular = Idle /\ windings = Idle /\ N = Idle /\ base = Idle
  /\ category = Idle /\ concat = Idle
  /\ writes = Idle
  /\ frange = Idle
  /\ underlying = Idle /\ invocation_count = Idle
  /\ zranges = Idle
  /\ nranges = Idle

\* The caller stays within one step of [begin, end].
FacadeConfined(c) ==
  IF derived = "CounterIterator" THEN c.i_ >= -1 /\ c.i_ <= MaxLen + 1
  ELSE c.winding_ >= -1 /\ c.winding_ <= crange.windings_

\* auto& other = ++it;
OpPreIncrement ==
  LET res == FacadePreIncrement(it)
  IN /\ FacadeConfined(res.self)
     /\ it' = res.self
     /\ other' = res.result
     /\ last' = Op("pre_inc", 0)
     /\ UNCHANGED <<varsW, varsC, varsO, rng, pc, seen>>

\* auto other = it++;
OpPostIncrement ==
  LET res == FacadePostIncrement(it)
  IN /\ FacadeConfined(res.self)
     /\ it' = res.self
     /\ other' = res.result
     /\ last' = Op("post_inc", 0)
     /\ UNCHANGED <<varsW, varsC, varsO, rng, pc, seen>>

\* auto& other = --it;
OpPreDecrement ==
  LET res == FacadePreDecrement(it)
  IN /\ FacadeConfined(res.self)
     /\ it' = res.self
     /\ other' = res.result
     /\ last' = Op("pre_dec", 0)
     /\ UNCHANGED <<varsW, varsC, varsO, rng, pc, seen>>

\* auto other = it--;
OpPostDecrement ==
  LET res == FacadePostDecrement(it)
  IN /\ FacadeConfined(res.self)
     /\ it' = res.self
     /\ other' = res.result
     /\ last' = Op("post_dec", 0)
     /\ UNCHANGED <<varsW, varsC, varsO, rng, pc, seen>>

NextFacade == OpPreIncrement \/ OpPostIncrement \/ OpPreDecrement \/ OpPostDecrement

SpecFacade == InitFacade /\ [][NextFacade]_vars

\* =========================================================== FilterIterator
\* A FilteredRange object r is [base_range_, pred_], pred_ given by the set
\* of values it accepts; a FilterIterator over it is [it_], a position in
\* r.base_range_.
FilterBaseEnd(r) == Len(r.base_range_)
EvaluatePredicate(r, value) == value \in r.pred_

\* while (it_ != BaseEnd() && !EvaluatePredicate(*it_)) ++it_;
RECURSIVE SkipRejected(_, _)
SkipRejected(r, p) ==
  IF p # FilterBaseEnd(r) /\ ~EvaluatePredicate(r, r.base_range_[p + 1])
  THEN SkipRejected(r, p + 1) ELSE p

\* Mutant: the constructor does not skip leading rejected elements.
FilterIteratorCtorNoSkip(r, p) == [it_ |-> p]

\* FilterIterator(it, parent)
FilterIteratorCtor(r, p) == [it_ |-> SkipRejected(r, p)]

FilterDereference(r, c) == r.base_range_[c.it_ + 1]

\* while (++it_ != BaseEnd() && !EvaluatePredicate(*it_)) {}
FilterIncrement(r, c) == [it_ |-> SkipRejected(r, c.it_ + 1)]

\* while (!EvaluatePredicate(*--it_)) {}.  There is no test against the base
\* begin: the loop ends at the first accepted element below it_.  Stepping
\* below position 0 reads outside the base; the callers here never do so
\* (they do not decrement begin()), the cursor is then left at -1.
RECURSIVE StepBackToAccepted(_, _)
StepBackToAccepted(r, p) ==
  IF p - 1 < 0 THEN -1
  ELSE IF ~EvaluatePredicate(r, r.base_range_[p]) THEN StepBackToAccepted(r, p - 1)
  ELSE p - 1

\* Mutant: one step back, whatever the predicate says of the element.
FilterDecrementNoSkip(r, c) == [it_ |-> c.it_ - 1]

FilterDecrement(r, c) == [it_ |-> StepBackToAccepted(r, c.it_)]

FilterIsEqual(a, b) == a.it_ = b.it_

\* FilteredRange::Begin / End, and the wrapper function.
FilterRangeBegin(r) == FilterIteratorCtor(r, 0)
FilterRangeEnd(r) == FilterIteratorCtor(r, Len(r.base_range_))
FilterRange(b, pred) == [base_range_ |-> b, pred_ |-> pred]

\* ======================================================== filter: the caller
ElementsOf(b) == {b[p] : p \in 1..Len(b)}

InitFilter ==
  /\ \E b \in BaseSeqs : \E pred \in SUBSET ElementsOf(b) : frange = FilterRange(b, pred)
  /\ rng = [begin_ |-> FilterRangeBegin(frange), end_ |-> FilterRangeEnd(frange)]
  /\ pc \in {"walk", "loop", "rloop"}
  /\ it = IF pc = "rloop" THEN rng.end_ ELSE rng.begin_
  /\ other = NoCursor
  /\ last = Op(IF pc = "rloop" THEN "end" ELSE "begin", 0)
  /\ seen = <<>>
  /\ circular = Idle /\ windings = Idle /\ N = Idle /\ base = Idle
  /\ category = Idle /\ concat = Idle
  /\ writes = Idle
  /\ crange = Idle
  /\ derived = Idle
  /\ underlying = Idle /\ invocation_count = Idle
  /\ zranges = Idle
  /\ nranges = Idle

\* for (auto x : range) { ... }
FilterLoopBody ==
  /\ pc = "loop"
  /\ ~FilterIsEqual(it, rng.end_)
  /\ seen' = Append(seen, FilterDereference(frange, it))
  /\ it' = FilterIncrement(frange, it)
  /\ last' = Op("inc", 0)
  /\ UNCHANGED <<varsW, varsC, varsO, rng, other, pc>>

\* for (auto x : ReverseRange(range)) { ... }
FilterReverseLoopBody ==
  /\ pc = "rloop"
  /\ ~FilterIsEqual(it, rng.begin_)
  /\ seen' = Append(seen, FilterDereference(frange, FilterDecrement(frange, it)))
  /\ it' = FilterDecrement(frange, it)
  /\ last' = Op("dec", 0)
  /\ UNCHANGED <<varsW, varsC, varsO, rng, other, pc>>

FilterLoopExit ==
  /\ \/ pc = "loop" /\ FilterIsEqual(it, rng.end_)
     \/ pc = "rloop" /\ FilterIsEqual(it, rng.begin_)
  /\ pc' = "done"
  /\ last' = Op(IF pc = "loop" THEN "exit" ELSE "rexit", 0)
  /\ UNCHANGED <<varsW, varsC, varsO, rng, it, other, seen>>

\* Free stepping: no ++ at end(), no -- at begin().
FilterOpIncrement ==
  /\ pc = "walk"
  /\ ~FilterIsEqual(it, rng.end_)
  /\ it' = FilterIncrement(frange, it)
  /\ last' = Op("inc", 0)
  /\ UNCHANGED <<varsW, varsC, varsO, rng, other, pc, seen>>

FilterOpDecrement ==
  /\ pc = "walk"
  /\ ~FilterIsEqual(it, rng.begin_)
  /\ it' = FilterDecrement(frange, it)
  /\ last' = Op("dec", 0)
  /\ UNCHANGED <<varsW, varsC, varsO, rng, other, pc, seen>>

FilterTakeEnd ==
  /\ pc = "walk"
  /\ it' = rng.end_
  /\ last' = Op("end", 0)
  /\ UNCHANGED <<varsW, varsC, varsO, rng, other, pc, seen>>

NextFilter ==
  FilterLoopBody \/ FilterReverseLoopBody \/ FilterLoopExit
    \/ FilterOpIncrement \/ FilterOpDecrement \/ FilterTakeEnd

SpecFilter == InitFilter /\ [][NextFilter]_vars

\* =========================================================== CachedIterator
\* A CachedIterator is [it_, current_value_, evaluated_], it_ a position of
\* the underlying cursor.  current_value_ has no initialiser: until the first
\* Dereference it holds an indeterminate value.
IndeterminateValues == {0, -1}

CachedIteratorCtor(p, garbage) ==
  [it_ |-> p, current_value_ |-> garbage, evaluated_ |-> FALSE]

\* Mutant: the cache is never filled, every Dereference evaluates.
CachedDereferenceUncached(u, c) ==
  [self |-> c, result |-> Star(u, c.it_), evaluations |-> 1]

\* Dereference() const, with its mutable members: the cursor afterwards, the
\* value returned and the number of times *it_ was evaluated.
CachedDereference(u, c) ==
  IF ~c.evaluated_
  THEN [self |-> [c EXCEPT !.evaluated_ = TRUE, !.current_value_ = Star(u, c.it_)],
        result |-> Star(u, c.it_), evaluations |-> 1]
  ELSE [self |-> c, result |-> c.current_value_, evaluations |-> 0]

\* Mutant: the step keeps the cached value.
CachedIncrementKeepsCache(c) == [c EXCEPT !.it_ = c.it_ + 1]

CachedIncrement(c) == [c EXCEPT !.it_ = c.it_ + 1, !.evaluated_ = FALSE]
CachedDecrement(c) == [c EXCEPT !.it_ = c.it_ - 1, !.evaluated_ = FALSE]
CachedAdvance(c, n) == [c EXCEPT !.it_ = c.it_ + n, !.evaluated_ = FALSE]
CachedIsEqual(a, rhs) == a.it_ = rhs.it_

\* CachedRange(range)
CachedRange(u, garbage) ==
  [begin_ |-> CachedIteratorCtor(0, garbage), end_ |-> CachedIteratorCtor(Len(u), garbage)]

\* ======================================================== cached: the caller
\* `seen` is the record of what the caller did since `it` was last moved: a
\* first entry for the move, then one entry per dereference of `it`, per copy
\* "auto other = it;" and per dereference of that copy, each with the value
\* obtained and the invocation count observed afterwards.  The copy lives
\* until `it` is moved.
Event(who, value, count) == [who |-> who, value |-> value, count |-> count]

InitCached ==
  /\ underlying \in BaseSeqs
  /\ invocation_count = 0
  /\ \E garbage \in IndeterminateValues : rng = CachedRange(underlying, garbage)
  /\ it = rng.begin_
  /\ other = NoCursor
  /\ pc = "walk"
  /\ last = Op("begin", 0)
  /\ seen = <<Event("move", "none", 0)>>
  /\ circular = Idle /\ windings = Idle /\ N = Idle /\ base = Idle
  /\ category = Idle /\ concat = Idle
  /\ writes = Idle
  /\ crange = Idle
  /\ derived = Idle
  /\ frange = Idle
  /\ zranges = Idle
  /\ nranges = Idle

\* *it
CachedOpDereference ==
  /\ Valid(underlying, it.it_)
  /\ Len(seen) <= MaxEvents
  /\ LET d == CachedDereference(underlying, it)
     IN /\ it' = d.self
        /\ invocation_count' = invocation_count + d.evaluations
        /\ seen' = Append(seen, Event("it", d.result, invocation_count + d.evaluations))
  /\ last' = Op("deref", 0)
  /\ UNCHANGED <<varsW, varsC, writes, crange, derived, frange, zranges, nranges, underlying, rng, other, pc>>

\* auto other = it;
CachedOpCopy ==
  /\ Len(seen) <= MaxEvents
  /\ other' = it
  /\ seen' = Append(seen, Event("copy", "none", invocation_count))
  /\ last' = Op("copy", 0)
  /\ UNCHANGED <<varsW, varsC, varsO, rng, it, pc>>

\* *other
CachedOpDereferenceCopy ==
  /\ other # NoCursor
  /\ Valid(underlying, other.it_)
  /\ Len(seen) <= MaxEvents
  /\ LET d == CachedDereference(underlying, other)
     IN /\ other' = d.self
        /\ invocation_count' = invocation_count + d.evaluations
        /\ seen' = Append(seen, Event("other", d.result, invocation_count + d.evaluations))
  /\ last' = Op("deref_copy", 0)
  /\ UNCHANGED <<varsW, varsC, writes, crange, derived, frange, zranges, nranges, underlying, rng, it, pc>>

\* A move of `it` stays inside [begin, end]; moves stop once the underlying
\* cursor has been evaluated MaxEvents times.
CachedMovable(c) ==
  invocation_count < MaxEvents /\ c.it_ >= 0 /\ c.it_ <= Len(underlying)

\* ++it
CachedOpIncrement ==
  /\ CachedMovable(CachedIncrement(it))
  /\ it' = CachedIncrement(it)
  /\ other' = NoCursor
  /\ seen' = <<Event("move", "none", invocation_count)>>
  /\ last' = Op("inc", 0)
  /\ UNCHANGED <<varsW, varsC, varsO, rng, pc>>

\* --it
CachedOpDecrement ==
  /\ CachedMovable(CachedDecrement(it))
  /\ it' = CachedDecrement(it)
  /\ other' = NoCursor
  /\ seen' = <<Event("move", "none", invocation_count)>>
  /\ last' = Op("dec", 0)
  /\ UNCHANGED <<varsW, varsC, varsO, rng, pc>>

\* it += n
CachedOpAdvance ==
  \E n \in (0 - Len(underlying))..Len(underlying) :
    /\ CachedMovable(CachedAdvance(it, n))
    /\ it' = CachedAdvance(it, n)
    /\ other' = NoCursor
    /\ seen' = <<Event("move", "none", invocation_count)>>
    /\ last' = Op("adv", n)
    /\ UNCHANGED <<varsW, varsC, varsO, rng, pc>>

NextCached ==
  CachedOpDereference \/ CachedOpCopy \/ CachedOpDereferenceCopy
    \/ CachedOpIncrement \/ CachedOpDecrement \/ CachedOpAdvance

SpecCached == InitCached /\ [][NextCached]_vars

\* ============================================================== ZipIterator
\* A ZipIterator is [it_tuple_], one position per zipped range (component k
\* runs over ranges[k]).
ZipIterator(positions) == [it_tuple_ |-> positions]

ZipDereference(ranges, c) ==
  [k \in 1..Len(ranges) |-> Star(ranges[k], c.it_tuple_[k])]
ZipIncrement(c) == [it_tuple_ |-> [k \in DOMAIN c.it_tuple_ |-> c.it_tuple_[k] + 1]]
ZipDecrement(c) == [it_tuple_ |-> [k \in DOMAIN c.it_tuple_ |-> c.it_tuple_[k] - 1]]
ZipAdvance(c, n) == [it_tuple_ |-> [k \in DOMAIN c.it_tuple_ |-> c.it_tuple_[k] + n]]

\* Mutant: two cursors are equal only if every pair of components matches.
ZipIsEqualEveryPair(a, rhs) ==
  \A k \in DOMAIN a.it_tuple_ : a.it_tuple_[k] = rhs.it_tuple_[k]

\* One matching pair of components is enough.
ZipIsEqual(a, rhs) ==
  \E k \in DOMAIN a.it_tuple_ : a.it_tuple_[k] = rhs.it_tuple_[k]

\* VariadicMin(val1, val2, vs...) = VariadicMin(val1 < val2 ? val1 : val2, vs...)
RECURSIVE VariadicMin(_)
VariadicMin(vals) ==
  IF Len(vals) = 1 THEN vals[1]
  ELSE VariadicMin(<<IF vals[1] < vals[2] THEN vals[1] ELSE vals[2]>>
                     \o SubSeq(vals, 3, Len(vals)))

\* Mutant: the distance between the first components.
ZipDistanceToFirstPair(a, rhs) == rhs.it_tuple_[1] - a.it_tuple_[1]

ZipDistanceTo(a, rhs) ==
  VariadicMin([k \in DOMAIN a.it_tuple_ |-> rhs.it_tuple_[k] - a.it_tuple_[k]])

\* ZipRange(ranges...)
ZipRange(ranges) ==
  [begin_ |-> ZipIterator([k \in 1..Len(ranges) |-> 0]),
   end_ |-> ZipIterator([k \in 1..Len(ranges) |-> Len(ranges[k])])]

\* =========================================================== zip: the caller
InitZip ==
  /\ zranges \in RangeTuples
  /\ rng = ZipRange(zranges)
  /\ it = rng.begin_
  /\ other = NoCursor
  /\ pc \in {"walk", "loop"}
  /\ last = Op("begin", 0)
  /\ seen = <<>>
  /\ circular = Idle /\ windings = Idle /\ N = Idle /\ base = Idle
  /\ category = Idle /\ concat = Idle
  /\ writes = Idle
  /\ crange = Idle
  /\ derived = Idle
  /\ frange = Idle
  /\ underlying = Idle /\ invocation_count = Idle
  /\ nranges = Idle

\* for (auto tuple : zipped) { ... }
ZipLoopBody ==
  /\ pc = "loop"
  /\ ~ZipIsEqual(it, rng.end_)
  /\ Len(seen) < MaxSubLen + 2
  /\ seen' = Append(seen, ZipDereference(zranges, it))
  /\ it' = ZipIncrement(it)
  /\ last' = Op("inc", 0)
  /\ UNCHANGED <<varsW, varsC, varsO, rng, other, pc>>

ZipLoopExit ==
  /\ pc = "loop"
  /\ ZipIsEqual(it, rng.end_)
  /\ pc' = "done"
  /\ last' = Op("exit", 0)
  /\ UNCHANGED <<varsW, varsC, varsO, rng, it, other, seen>>

\* Free stepping keeps every component inside its own range.
ZipConfined(c) ==
  \A k \in DOMAIN c.it_tuple_ : c.it_tuple_[k] >= 0 /\ c.it_tuple_[k] <= Len(zranges[k])

ZipOpIncrement ==
  /\ pc = "walk"
  /\ ZipConfined(ZipIncrement(it))
  /\ it' = ZipIncrement(it)
  /\ last' = Op("inc", 0)
  /\ UNCHANGED <<varsW, varsC, varsO, rng, other, pc, seen>>

ZipOpDecrement ==
  /\ pc = "walk"
  /\ ZipConfined(ZipDecrement(it))
  /\ it' = ZipDecrement(it)
  /\ last' = Op("dec", 0)
  /\ UNCHANGED <<varsW, varsC, varsO, rng, other, pc, seen>>

ZipOpAdvance ==
  /\ pc = "walk"
  /\ \E n \in (0 - MaxSubLen)..MaxSubLen :
       /\ ZipConfined(ZipAdvance(it, n))
       /\ it' = ZipAdvance(it, n)
       /\ last' = Op("adv", n)
  /\ UNCHANGED <<varsW, varsC, varsO, rng, other, pc, seen>>

ZipTakeEnd ==
  /\ pc = "walk"
  /\ it' = rng.end_
  /\ last' = Op("end", 0)
  /\ UNCHANGED <<varsW, varsC, varsO, rng, other, pc, seen>>

NextZip ==
  ZipLoopBody \/ ZipLoopExit \/ ZipOpIncrement \/ ZipOpDecrement \/ ZipOpAdvance
    \/ ZipTakeEnd

SpecZip == InitZip /\ [][NextZip]_vars

\* =========================================================== NestedIterator
\* A NestedIterator is [it_tuple_], one position per nested range; component
\* Id (0-based, as in the code) is it_tuple_[Id + 1] and runs over
\* ranges[Id + 1].
NestedBegin(ranges, Id) == 0
NestedEnd(ranges, Id) == Len(ranges[Id + 1])

\* ++ and -- of a component cursor.  Inside its range they are the usual
\* steps.  ++ at the range's end and -- at its begin are outside the cursor's
\* contract: a pointer (random access) moves outside the storage, a node
\* cursor of a doubly linked list (bidirectional) follows the sentinel's link.
NestedStep(ranges, Id, p) ==
  IF p # NestedEnd(ranges, Id) THEN p + 1
  ELSE IF category = "random_access" THEN p + 1 ELSE NestedBegin(ranges, Id)
NestedStepBack(ranges, Id, p) ==
  IF p # NestedBegin(ranges, Id) THEN p - 1
  ELSE IF category = "random_access" THEN p - 1 ELSE NestedEnd(ranges, Id)

\* MakeBegin / MakeEnd
NestedMakeBegin(ranges) ==
  [it_tuple_ |-> [k \in 1..Len(ranges) |-> NestedBegin(ranges, k - 1)]]
NestedMakeEnd(ranges) ==
  [it_tuple_ |-> [k \in 1..Len(ranges) |->
                    IF k - 1 = 0 THEN NestedEnd(ranges, k - 1) ELSE NestedBegin(ranges, k - 1)]]

\* A component whose cursor designates no element reads an indeterminate
\* value (Star).
NestedDereference(ranges, c) ==
  [k \in 1..Len(ranges) |-> Star(ranges[k], c.it_tuple_[k])]

\* Require all iterators to match.
NestedIsEqual(a, rhs) ==
  \A k \in DOMAIN a.it_tuple_ : a.it_tuple_[k] = rhs.it_tuple_[k]

\* Mutant: an inner cursor that reaches its end is reset, and the step ends
\* there without carrying into the next outer cursor.
NestedIncrementOrWrapNoCarry(ranges, c, Id) ==
  LET p == NestedStep(ranges, Id, c.it_tuple_[Id + 1])
  IN IF Id # 0 /\ p = NestedEnd(ranges, Id)
     THEN <<[c EXCEPT !.it_tuple_[Id + 1] = NestedBegin(ranges, Id)], TRUE>>
     ELSE <<[c EXCEPT !.it_tuple_[Id + 1] = p], TRUE>>

\* IncrementOrWrap<Id>: <<cursor, finished>>
NestedIncrementOrWrap(ranges, c, Id) ==
  LET p == NestedStep(ranges, Id, c.it_tuple_[Id + 1])
  IN IF Id # 0 /\ p = NestedEnd(ranges, Id)
     THEN <<[c EXCEPT !.it_tuple_[Id + 1] = NestedBegin(ranges, Id)], FALSE>>
     ELSE <<[c EXCEPT !.it_tuple_[Id + 1] = p], TRUE>>

\* The fold (IncrementOrWrap<kNumberOfRanges - Ids - 1>() || ...): from the
\* last component towards the first.
RECURSIVE NestedIncrementFold(_, _, _)
NestedIncrementFold(ranges, c, Id) ==
  IF Id < 0 THEN c
  ELSE LET res == NestedIncrementOrWrap(ranges, c, Id)
       IN IF res[2] THEN res[1] ELSE NestedIncrementFold(ranges, res[1], Id - 1)

NestedIncrement(ranges, c) == NestedIncrementFold(ranges, c, Len(ranges) - 1)

\* DecrementOrWrap<Id>: <<cursor, finished>>
NestedDecrementOrWrap(ranges, c, Id) ==
  IF Id # 0 /\ c.it_tuple_[Id + 1] = NestedBegin(ranges, Id)
  THEN <<[c EXCEPT !.it_tuple_[Id + 1] = NestedStepBack(ranges, Id, NestedEnd(ranges, Id))],
         FALSE>>
  ELSE <<[c EXCEPT !.it_tuple_[Id + 1] = NestedStepBack(ranges, Id, c.it_tuple_[Id + 1])],
         TRUE>>

RECURSIVE NestedDecrementFold(_, _, _)
NestedDecrementFold(ranges, c, Id) ==
  IF Id < 0 THEN c
  ELSE LET res == NestedDecrementOrWrap(ranges, c, Id)
       IN IF res[2] THEN res[1] ELSE NestedDecrementFold(ranges, res[1], Id - 1)

NestedDecrement(ranges, c) == NestedDecrementFold(ranges, c, Len(ranges) - 1)

\* NestRanges(ranges...)
NestRanges(ranges) ==
  [begin_ |-> NestedMakeBegin(ranges), end_ |-> NestedMakeEnd(ranges)]

\* ======================================================== nested: the caller
NestedLoopCap == MaxSubLen ^ MaxRanges + 2

InitNested ==
  /\ category \in {"random_access", "bidirectional"}
  /\ nranges \in RangeTuples
  /\ rng = NestRanges(nranges)
  /\ pc \in {"loop", "rloop"}
  /\ it = IF pc = "rloop" THEN rng.end_ ELSE rng.begin_
  /\ other = NoCursor
  /\ last = Op(IF pc = "rloop" THEN "end" ELSE "begin", 0)
  /\ seen = <<>>
  /\ circular = Idle /\ windings = Idle /\ N = Idle /\ base = Idle
  /\ concat = Idle
  /\ writes = Idle
  /\ crange = Idle
  /\ derived = Idle
  /\ frange = Idle
  /\ underlying = Idle /\ invocation_count = Idle
  /\ zranges = Idle

\* for (auto tuple : nested) { ... }
NestedLoopBody ==
  /\ pc = "loop"
  /\ ~NestedIsEqual(it, rng.end_)
  /\ Len(seen) < NestedLoopCap
  /\ seen' = Append(seen, NestedDereference(nranges, it))
  /\ it' = NestedIncrement(nranges, it)
  /\ last' = Op("inc", 0)
  /\ UNCHANGED <<varsW, varsC, varsO, rng, other, pc>>

\* for (auto tuple : ReverseRange(nested)) { ... }
NestedReverseLoopBody ==
  /\ pc = "rloop"
  /\ ~NestedIsEqual(it, rng.begin_)
  /\ Len(seen) < NestedLoopCap
  /\ seen' = Append(seen, NestedDereference(nranges, NestedDecrement(nranges, it)))
  /\ it' = NestedDecrement(nranges, it)
  /\ last' = Op("dec", 0)
  /\ UNCHANGED <<varsW, varsC, varsO, rng, other, pc>>

NestedLoopExit ==
  /\ \/ pc = "loop" /\ NestedIsEqual(it, rng.end_)
     \/ pc = "rloop" /\ NestedIsEqual(it, rng.begin_)
  /\ pc' = "done"
  /\ last' = Op(IF pc = "loop" THEN "exit" ELSE "rexit", 0)
  /\ UNCHANGED <<varsW, varsC, varsO, rng, it, other, seen>>

NextNested == NestedLoopBody \/ NestedReverseLoopBody \/ NestedLoopExit

SpecNested == InitNested /\ [][NextNested]_vars

\* ================================================================== claims
\* The range-for loop of the windowed ranges reads valid positions only.
WindowReadsValid ==
  (pc = "loop" /\ ~IsEqual(it, rng.end_)) => Dereferenceable(base, Slots(it))

\* C1: over a base of length L >= N the linear windowed range, traversed by
\* Increment from begin() until the cursor equals end(), yields exactly
\* L-N+1 windows, and element j of window i is base element i+j.
C1_LinearWindows ==
  (~circular /\ Len(base) >= N) =>
    /\ Len(seen) <= Len(base) - N + 1
    /\ \A i \in 1..Len(seen) : \A j \in 0..(N - 1) : seen[i][j] = base[(i - 1) + j + 1]
    /\ (pc = "loop" /\ IsEqual(it, rng.end_)) => Len(seen) = Len(base) - N + 1
    /\ pc = "done" => Len(seen) = Len(base) - N + 1

C1_Witness ==
  ~circular /\ pc = "done" /\ N >= 2 /\ Len(base) >= N + 2 /\ Len(seen) = Len(base) - N + 1

\* C2: over a base of length L >= N the circular windowed range whose end()
\* was built with w windings, traversed by Increment from begin() until the
\* cursor equals end(), yields exactly w*L windows, and element j of window i
\* is base element (i+j) mod L.
C2_CircularWindows ==
  (circular /\ Len(base) >= N) =>
    /\ \A i \in 1..Len(seen) : \A j \in 0..(N - 1) :
         seen[i][j] = base[(((i - 1) + j) % Len(base)) + 1]
    /\ Len(seen) <= windings * Len(base)
    /\ (pc = "loop" /\ IsEqual(it, rng.end_)) => Len(seen) = windings * Len(base)
    /\ pc = "done" => Len(seen) = windings * Len(base)

C2_Witness ==
  /\ circular /\ pc = "done" /\ N >= 2 /\ Len(base) > N
  /\ windings = 2 /\ Len(seen) = 2 * Len(base)

\* C5: for the circular windowed cursor (L >= N), Increment then Decrement,
\* and Decrement then Increment, give a cursor equal to the original one.
C5_IncDecRoundTrip ==
  (circular /\ Walking) =>
    /\ CircIsEqual(CircDecrement(CircIncrement(it)), it)
    /\ CircIsEqual(CircIncrement(CircDecrement(it)), it)

\* C6: for a circular windowed range with w windings over a base of length
\* L >= N, end() - begin() is w*L, begin() advanced by that amount equals
\* end(), and that cursor advanced back by the same amount equals begin().
C6_EndMinusBegin ==
  (circular /\ Len(base) >= N) =>
    LET d == CircDistanceTo(rng.begin_, rng.end_)
        fwd == CircAdvance(rng.begin_, d)
    IN /\ d = windings * Len(base)
       /\ CircIsEqual(fwd, rng.end_)
       /\ CircIsEqual(CircAdvance(fwd, 0 - d), rng.begin_)

C6_Witness ==
  /\ circular /\ Walking /\ N >= 2 /\ windings >= 2
  /\ last = Op("adv", windings * Len(base))
  /\ CircIsEqual(it, rng.end_)

\* C7: for two circular windowed cursors a and b reached from begin() of the
\* same range by Increment, Decrement and Advance, a advanced by b - a
\* equals b.
C7_AdvanceByDistance ==
  (circular /\ Walking /\ other # NoCursor) =>
    CircIsEqual(CircAdvance(other, CircDistanceTo(other, it)), it)

\* C8: when the base has fewer than N elements, the linear and the circular
\* windowed range are empty: begin() equals end(), and a traversal from
\* begin() dereferences nothing.
C8_TooShortIsEmpty ==
  Len(base) < N =>
    /\ IsEqual(rng.begin_, rng.end_)
    /\ seen = <<>>
    /\ pc = "loop" => IsEqual(it, rng.end_)

C8_Witness ==
  /\ pc = "done" /\ Len(base) < N /\ Len(base) >= 1
  /\ circular /\ windings >= 1

\* ---------------------------------------------------------- concat claims
\* What the claims speak of: the lengths l0..l(K-1), their running sums, and
\* the elements of the sub-ranges laid end to end.
Lengths(r) == [k \in 1..Len(r.ranges_) |-> Len(r.ranges_[k])]
RECURSIVE SumTo(_, _)
SumTo(lens, k) == IF k = 0 THEN 0 ELSE lens[k] + SumTo(lens, k - 1)
Cumulative(r, j) == SumTo(Lengths(r), j + 1)         \* cumulative[j], cumulative[-1] = 0
SumOfLengths(r) == SumTo(Lengths(r), Len(r.ranges_))
SmallestAbove(r, g) ==
  CHOOSE j \in 0..(Len(r.ranges_) - 1) :
    /\ Cumulative(r, j) > g
    /\ \A i \in 0..(j - 1) : Cumulative(r, i) <= g
NonEmptyOnes(r) == SelectSeq(r.ranges_, LAMBDA q : Len(q) > 0)
AllEmpty(r) == \A k \in 1..Len(r.ranges_) : Len(r.ranges_[k]) = 0
SomeEmpty(r) == \E k \in 1..Len(r.ranges_) : Len(r.ranges_[k]) = 0

\* The forward traversal of a concatenation r from cursor c, by the code's
\* own Increment, IsEqual and Dereference.
RECURSIVE TraverseFrom(_, _, _)
TraverseFrom(r, c, fuel) ==
  IF ConcatIsEqual(c, ConcatEndCtor(r)) \/ fuel = 0 \/ ~ConcatValid(r, c) THEN <<>>
  ELSE <<ConcatDereference(r, c)>> \o TraverseFrom(r, ConcatIncrement(r, c), fuel - 1)
Traversal(ranges) ==
  IF ranges = <<>> THEN <<>>
  ELSE LET r == ConcatRangeCtor(ranges)
       IN TraverseFrom(r, ConcatBeginCtor(r), ConcatLoopCap)
IsPrefix(a, b) == Len(a) <= Len(b) /\ \A i \in 1..Len(a) : a[i] = b[i]

\* C3: for a random-access concatenation, end() - begin() is the sum of the
\* sub-range lengths, and for every global index g below the sum begin()+g
\* dereferences to the element of sub-range j at local offset
\* g - cumulative[j-1], j being the smallest index with cumulative[j] > g.
C3_ConcatIndexing ==
  category = "random_access" =>
    /\ ConcatDistanceTo(concat, rng.begin_, rng.end_) = SumOfLengths(concat)
    /\ \A g \in 0..(SumOfLengths(concat) - 1) :
         LET c == ConcatAdvance(concat, rng.begin_, g)
             j == SmallestAbove(concat, g)
         IN /\ ConcatValid(concat, c)
            /\ ConcatDereference(concat, c)
                 = concat.ranges_[j + 1][(g - Cumulative(concat, j - 1)) + 1]

\* C4: a concatenation with one or more empty sub-ranges yields, traversed
\* forward from begin() to end(), the same elements in the same number as
\* the concatenation of its non-empty sub-ranges alone.
C4_EmptySubRangesVanish ==
  (category # Idle /\ SomeEmpty(concat) /\ pc \in {"loop", "done"}) =>
    LET expected == Traversal(NonEmptyOnes(concat))
    IN /\ IsPrefix(seen, expected)
       /\ (pc = "done" \/ ConcatIsEqual(it, rng.end_)) => seen = expected

\* C9: a concatenation of K >= 1 sub-ranges that are all empty is empty:
\* begin() equals end(), for every K, K = 1 included.
C9_AllEmptyIsEmpty ==
  (category # Idle /\ AllEmpty(concat)) => ConcatIsEqual(rng.begin_, rng.end_)

\* C10: for a concatenation cursor over bidirectional sub-ranges, with empty
\* sub-ranges anywhere, --(++it) equals it for it in [begin(), end()), and
\* ++(--it) equals it for it in (begin(), end()].
C10_ConcatIncDecRoundTrip ==
  (category # Idle /\ pc = "walk") =>
    /\ ~ConcatIsEqual(it, rng.end_) =>
         ConcatIsEqual(ConcatDecrement(concat, ConcatIncrement(concat, it)), it)
    /\ ~ConcatIsEqual(it, rng.begin_) =>
         ConcatIsEqual(ConcatIncrement(concat, ConcatDecrement(concat, it)), it)

\* The cursor has just crossed a run of two empty sub-ranges.
C10_Witness ==
  /\ category = "bidirectional" /\ pc = "walk" /\ last = Op("inc", 0)
  /\ it.index >= 3 /\ it.pos = 0
  /\ RangeIsEmpty(concat, it.index - 1) /\ RangeIsEmpty(concat, it.index - 2)
  /\ ~RangeIsEmpty(concat, it.index - 3)
  /\ ~ConcatIsEqual(it, rng.end_)

\* i unit steps, by the code's own Increment / Decrement.
RECURSIVE IncrementTimes(_, _, _)
IncrementTimes(r, c, i) ==
  IF i = 0 THEN c ELSE IncrementTimes(r, ConcatIncrement(r, c), i - 1)
RECURSIVE DecrementTimes(_, _, _)
DecrementTimes(r, c, i) ==
  IF i = 0 THEN c ELSE DecrementTimes(r, ConcatDecrement(r, c), i - 1)

\* C11: for a random-access concatenation (empty sub-ranges allowed) and
\* every i in [0, total], begin()+i equals the cursor reached by i Increments
\* from begin() and the cursor reached by total-i Decrements from end(); and
\* it + (end() - it) equals end().
C11_BulkAgreesWithUnit ==
  category = "random_access" =>
    /\ \A i \in 0..SumOfLengths(concat) :
         LET bulk == ConcatAdvance(concat, rng.begin_, i)
         IN /\ ConcatIsEqual(bulk, IncrementTimes(concat, rng.begin_, i))
            /\ ConcatIsEqual(bulk, DecrementTimes(concat, rng.end_,
                                                  SumOfLengths(concat) - i))
    /\ pc = "walk" =>
         ConcatIsEqual(ConcatAdvance(concat, it, ConcatDistanceTo(concat, it, rng.end_)),
                       rng.end_)

\* --------------------------------------------------------- windowed claims
\* c lies in [begin(), end()] of the linear windowed range.
InLinearRange(c) ==
  AdjDistanceTo(rng.begin_, c) >= 0 /\ AdjDistanceTo(c, rng.end_) >= 0

\* The N stored cursors designate N consecutive base positions.
Consecutive(c) ==
  \A i \in 0..(N - 2) :
    c.iterators_[(i + 1 + c.offset_) % N] = c.iterators_[(i + c.offset_) % N] + 1

\* C12: for the linear windowed cursor (L >= N), --(++c) equals c for every
\* cursor c in [begin(), end()), and ++(--c) equals c for every cursor c in
\* (begin(), end()], the end() the range returns included.
C12_LinearIncDecRoundTrip ==
  (~circular /\ Walking /\ InLinearRange(it)) =>
    /\ ~AdjIsEqual(it, rng.end_) => AdjIsEqual(AdjDecrement(AdjIncrement(it)), it)
    /\ ~AdjIsEqual(it, rng.begin_) => AdjIsEqual(AdjIncrement(AdjDecrement(it)), it)

\* What the claim speaks of: the base as it was built, the base position
\* element j of window i covers, and the value the latest assignment made
\* before window i left at a position.
OriginalBase == CHOOSE b \in BaseSeqs : Len(b) = Len(base)
Covered(i, j) == IF circular THEN (i + j) % Len(base) ELSE i + j
WritesTo(p, i) ==
  {k \in 1..Len(writes) : writes[k].window < i /\ Covered(writes[k].window, writes[k].elem) = p}
ValueAt(p, i) ==
  IF WritesTo(p, i) = {} THEN OriginalBase[p + 1]
  ELSE writes[CHOOSE k \in WritesTo(p, i) : \A m \in WritesTo(p, i) : m <= k].value

\* C13: with a base cursor that yields lvalues, an assignment through
\* element j of window i changes base position i+j (mod L for the circular
\* variant) and no other, and every later window of the traversal that
\* covers that position reads the assigned value.
C13_WindowsAliasBase ==
  /\ \A p \in 0..(Len(base) - 1) : base[p + 1] = ValueAt(p, Len(seen))
  /\ \A i \in 0..(Len(seen) - 1) : \A j \in 0..(N - 1) :
       seen[i + 1][j] = ValueAt(Covered(i, j), i)

\* A later window of a circular traversal reads, across the wrap-around, a
\* value an earlier window assigned.
C13_Witness ==
  /\ circular /\ pc = "done" /\ N >= 2
  /\ \E k \in 1..Len(writes) : \E i \in 0..(Len(seen) - 1) : \E j \in 0..(N - 1) :
       /\ i > writes[k].window /\ i + j >= Len(base)
       /\ seen[i + 1][j] = writes[k].value

\* ------------------------------------------------- CircularIterator claims
\* The elements a forward traversal of w windings over base b yields.
Unrolled(b, count) == [i \in 1..count |-> b[((i - 1) % Len(b)) + 1]]
Reversed(q) == [i \in 1..Len(q) |-> q[Len(q) + 1 - i]]

\* C14: CircularRange(base, w) over a non-empty base of length L, w >= 0,
\* yields exactly w*L elements under forward traversal, element i being
\* base[i mod L], and reverse traversal from end() to begin() yields the same
\* elements in reverse order.
C14_CircularRangeElements ==
  (~crange.connect_ /\ Len(crange.base_range_) >= 1) =>
    LET L == Len(crange.base_range_)
        all == Unrolled(crange.base_range_, crange.windings_ * L)
    IN /\ pc = "loop" => IsPrefix(seen, all)
       /\ (pc = "loop" /\ CircularIsEqual(it, rng.end_)) => seen = all
       /\ pc = "rloop" => IsPrefix(seen, Reversed(all))
       /\ (pc = "rloop" /\ CircularIsEqual(it, rng.begin_)) => seen = Reversed(all)
       /\ pc = "done" => seen = IF last.op = "exit" THEN all ELSE Reversed(all)

C14_Witness ==
  /\ ~crange.connect_ /\ Len(crange.base_range_) >= 3 /\ crange.windings_ >= 2
  /\ pc = "done" /\ last.op = "rexit"
  /\ Len(seen) = crange.windings_ * Len(crange.base_range_)

\* C15: CircularConnectRange over a non-empty base [x0, ..., xn] with the
\* default one winding yields [x0, ..., xn, x0]: end() - begin() is L+1 and
\* the last element is the first base element; over an empty base begin()
\* equals end().
C15_ConnectRepeatsFirst ==
  (crange.connect_ /\ crange.windings_ = 1) =>
    LET b == crange.base_range_
    IN IF Len(b) = 0 THEN CircularIsEqual(rng.begin_, rng.end_) /\ seen = <<>>
       ELSE /\ CircularDistanceTo(crange, rng.begin_, rng.end_) = Len(b) + 1
            /\ pc = "loop" => IsPrefix(seen, Append(b, b[1]))
            /\ (pc = "loop" /\ CircularIsEqual(it, rng.end_)) => seen = Append(b, b[1])
            /\ (pc = "done" /\ last.op = "exit") => seen = Append(b, b[1])

C15_Witness ==
  /\ crange.connect_ /\ crange.windings_ = 1 /\ Len(crange.base_range_) >= 2
  /\ pc = "done" /\ last.op = "exit"
  /\ Len(seen) = Len(crange.base_range_) + 1
  /\ seen[Len(seen)] = crange.base_range_[1]

\* C16: a circular cursor constructed over an empty base has winding 0
\* whatever winding was requested, so the circular range over an empty base
\* has begin() equal to end() for every winding count w >= 0 and either
\* connect setting.
C16_EmptyBaseNormalized ==
  Len(crange.base_range_) = 0 =>
    /\ \A w \in 0..(MaxTurns + 1) : CircularIteratorCtor(crange, w).winding_ = 0
    /\ rng.begin_.winding_ = 0 /\ rng.end_.winding_ = 0
    /\ CircularIsEqual(rng.begin_, rng.end_)
    /\ seen = <<>>

C16_Witness ==
  /\ Len(crange.base_range_) = 0 /\ crange.windings_ >= 2 /\ crange.connect_
  /\ pc = "done" /\ last.op = "exit"

\* ----------------------------------------------------------- facade claims
\* C17: for every cursor built on IteratorFacade, post-increment and
\* post-decrement return a cursor equal to the state before the step, which
\* dereferences to the old element, while the operand ends in the stepped
\* state; pre-increment and pre-decrement return the stepped state.
C17_PostReturnsSnapshot ==
  [][/\ last'.op \in {"post_inc", "post_dec"} =>
          /\ DerivedIsEqual(other', it)
          /\ DerivedDereference(other') = DerivedDereference(it)
     /\ last'.op \in {"pre_inc", "pre_dec"} => DerivedIsEqual(other', it')
     /\ last'.op \in {"pre_inc", "post_inc"} => DerivedIsEqual(it', DerivedIncrement(it))
     /\ last'.op \in {"pre_dec", "post_dec"} => DerivedIsEqual(it', DerivedDecrement(it))
    ]_vars

\* A post-increment across the wrap of a circular cursor has returned the
\* cursor of the previous turn's last element.
C17_Witness ==
  /\ derived = "CircularIterator" /\ last = Op("post_inc", 0)
  /\ it.winding_ = 1 /\ other.winding_ = 0
  /\ other.base_iter_ = Len(crange.base_range_) - 1 /\ Len(crange.base_range_) >= 2

\* ----------------------------------------------------------- filter claims
\* The base elements the predicate accepts, in base order.
Accepted(r) == SelectSeq(r.base_range_, LAMBDA v : v \in r.pred_)

\* C18: FilterRange(base, pred) yields exactly the base elements for which
\* pred is true, in base order, under forward traversal; reverse traversal
\* from end() yields them in reverse order; if no element satisfies pred
\* then begin() equals end(); whether or not the first and the last base
\* element satisfy pred.
C18_FilterYieldsAccepted ==
  /\ pc = "loop" => IsPrefix(seen, Accepted(frange))
  /\ (pc = "loop" /\ FilterIsEqual(it, rng.end_)) => seen = Accepted(frange)
  /\ pc = "rloop" => IsPrefix(seen, Reversed(Accepted(frange)))
  /\ (pc = "rloop" /\ FilterIsEqual(it, rng.begin_)) => seen = Reversed(Accepted(frange))
  /\ pc = "done" =>
       seen = IF last.op = "exit" THEN Accepted(frange) ELSE Reversed(Accepted(frange))
  /\ Accepted(frange) = <<>> => FilterIsEqual(rng.begin_, rng.end_)

\* A reverse traversal is complete over a base whose first and last elements
\* are rejected and whose accepted elements are not adjacent.
C18_Witness ==
  /\ pc = "done" /\ last.op = "rexit" /\ Len(seen) = 2
  /\ Len(frange.base_range_) >= 4
  /\ frange.base_range_[1] \notin frange.pred_
  /\ frange.base_range_[Len(frange.base_range_)] \notin frange.pred_

\* ----------------------------------------------------------- cached claims
\* Whether `it` was dereferenced, since its last move, before event k; and
\* the latest copy taken before event k (0 if none).
DereferencedBefore(k) == \E m \in 2..(k - 1) : seen[m].who = "it"
CopyBefore(k) ==
  LET copies == {m \in 2..(k - 1) : seen[m].who = "copy"}
  IN IF copies = {} THEN 0 ELSE CHOOSE m \in copies : \A c \in copies : c <= m

\* C19: any number of consecutive dereferences of the same CachedIterator
\* with no Increment/Decrement/Advance in between evaluates the underlying
\* cursor exactly once; a copy taken after the first dereference reuses the
\* cached value; after any move the next dereference evaluates the
\* underlying cursor exactly once more and returns the value at the new
\* position.
C19_OneEvaluationPerPosition ==
  \A k \in 2..Len(seen) :
    /\ seen[k].who = "it" =>
         /\ seen[k].value = underlying[it.it_ + 1]
         /\ seen[k].count = seen[k - 1].count + (IF DereferencedBefore(k) THEN 0 ELSE 1)
    /\ (seen[k].who = "other" /\ CopyBefore(k) > 0 /\ DereferencedBefore(CopyBefore(k))) =>
         /\ seen[k].value = underlying[it.it_ + 1]
         /\ seen[k].count = seen[k - 1].count

\* After a move: `it` dereferenced twice, then copied, then the copy
\* dereferenced, one evaluation in all.
C19_Witness ==
  /\ last = Op("deref_copy", 0) /\ Len(seen) = 5
  /\ seen[1].count >= 1
  /\ seen[2].who = "it" /\ seen[3].who = "it" /\ seen[4].who = "copy"
  /\ seen[5].count = seen[1].count + 1
  /\ it.it_ >= 1

\* -------------------------------------------------------------- zip claims
\* The length of the shortest zipped range.
ShortestLength(ranges) ==
  CHOOSE m \in {Len(ranges[k]) : k \in 1..Len(ranges)} :
    \A k \in 1..Len(ranges) : m <= Len(ranges[k])

\* C20: for ZipRange over ranges of different lengths, end() - begin() is
\* the minimum of the lengths, begin() plus that minimum equals end(), and
\* forward traversal by Increment from begin() reaches a cursor equal to
\* end() after exactly that many steps.
C20_ZipStopsAtShortest ==
  LET m == ShortestLength(zranges)
  IN /\ ZipDistanceTo(rng.begin_, rng.end_) = m
     /\ ZipIsEqual(ZipAdvance(rng.begin_, m), rng.end_)
     /\ pc = "loop" =>
          /\ Len(seen) <= m
          /\ ZipIsEqual(it, rng.end_) <=> Len(seen) = m
     /\ pc = "done" => Len(seen) = m
     /\ \A i \in 1..Len(seen) : \A k \in 1..Len(zranges) : seen[i][k] = zranges[k][i]

\* A traversal of three or more ranges of pairwise different lengths, the
\* shortest neither first nor last, has ended.
C20_Witness ==
  /\ pc = "done" /\ Len(zranges) >= 3 /\ Len(seen) = 1
  /\ Len(zranges[1]) = 2 /\ Len(zranges[2]) = 1 /\ Len(zranges[3]) = 2

\* ----------------------------------------------------------- nested claims
AllNonEmpty(ranges) == \A k \in 1..Len(ranges) : Len(ranges[k]) >= 1
RECURSIVE ProductFrom(_, _)
ProductFrom(ranges, k) ==
  IF k > Len(ranges) THEN 1 ELSE Len(ranges[k]) * ProductFrom(ranges, k + 1)

\* The Cartesian product in row-major order: tuple g (0-based) takes from
\* range k the element at offset (g div (product of the later lengths)) mod
\* the length of range k.
RowMajor(ranges) ==
  [g \in 1..ProductFrom(ranges, 1) |->
     [k \in 1..Len(ranges) |->
        ranges[k][(((g - 1) \div ProductFrom(ranges, k + 1)) % Len(ranges[k])) + 1]]]

\* C21: NestRanges over non-empty ranges yields, under forward traversal from
\* begin() to end(), every tuple of the Cartesian product exactly once in
\* row-major order (the last range varies fastest), the product of the
\* lengths many tuples; reverse traversal from end() yields the same tuples
\* in reverse order.
C21_NestedRowMajor ==
  AllNonEmpty(nranges) =>
    LET all == RowMajor(nranges)
    IN /\ pc = "loop" => IsPrefix(seen, all)
       /\ (pc = "loop" /\ NestedIsEqual(it, rng.end_)) => seen = all
       /\ pc = "rloop" => IsPrefix(seen, Reversed(all))
       /\ (pc = "rloop" /\ NestedIsEqual(it, rng.begin_)) => seen = Reversed(all)
       /\ pc = "done" => seen = IF last.op = "exit" THEN all ELSE Reversed(all)

\* A reverse traversal of three nested ranges, the middle one of length 1,
\* is complete.
C21_Witness ==
  /\ pc = "done" /\ last.op = "rexit" /\ Len(nranges) = 3
  /\ Len(nranges[1]) = 2 /\ Len(nranges[2]) = 1 /\ Len(nranges[3]) = 2
  /\ Len(seen) = 4

\* C22: NestRanges over ranges of which at least one is empty, whichever
\* position the empty range has, is an empty range: begin() equals end().
C22_SomeEmptyIsEmpty ==
  (\E k \in 1..Len(nranges) : Len(nranges[k]) = 0) => NestedIsEqual(rng.begin_, rng.end_)

\* ------------------------------------------- CircularIterator: bulk advance
\* n unit steps of the circular cursor, by the code's own Increment (n >= 0)
\* or Decrement (n < 0).
RECURSIVE CircularSteps(_, _, _)
CircularSteps(r, c, n) ==
  IF n = 0 THEN c
  ELSE IF n > 0 THEN CircularSteps(r, CircularIncrement(r, c), n - 1)
  ELSE CircularSteps(r, CircularDecrement(r, c), n + 1)

\* C23: for the single-element circular cursor over a non-empty base,
\* Advance(n) yields a cursor equal (same position and same winding) to the
\* one reached by n Increments when n >= 0 and by |n| Decrements when n < 0,
\* from every position and winding; in particular end() - 1 equals the
\* cursor obtained by decrementing end() once.
C23_CircularBulkAgreesWithUnit ==
  CircularWalking =>
    /\ \A n \in CircularAdvanceArgs :
         CircularIsEqual(CircularAdvance(crange, it, n), CircularSteps(crange, it, n))
    /\ CircularIsEqual(CircularAdvance(crange, rng.end_, -1),
                       CircularDecrement(crange, rng.end_))

\* ------------------------------------------ circular windowed: the ordering
\* The cursor reached from c by k Increments.
RECURSIVE CircIncrementTimes(_, _)
CircIncrementTimes(c, k) == IF k = 0 THEN c ELSE CircIncrementTimes(CircIncrement(c), k - 1)

\* C24: for a circular windowed range (L >= N, end built with w windings),
\* the cursor c_k reached from begin() by k Increments satisfies
\* c_k - begin() = k for every 0 <= k <= w*L, and therefore c_k < end() for
\* every k < w*L and c_i < c_j whenever i < j.
C24_DistanceCountsSteps ==
  (circular /\ Len(base) >= N) =>
    \A k \in 0..(windings * Len(base)) :
      LET c_k == CircIncrementTimes(rng.begin_, k)
      IN /\ OperatorMinus(c_k, rng.begin_) = k
         /\ k < windings * Len(base) => OperatorLess(c_k, rng.end_)
         /\ \A i \in 0..(k - 1) : OperatorLess(CircIncrementTimes(rng.begin_, i), c_k)

\* n unit steps of the circular windowed cursor, by the code's own Increment
\* (n >= 0) or Decrement (n < 0).
RECURSIVE CircSteps(_, _)
CircSteps(c, n) ==
  IF n = 0 THEN c
  ELSE IF n > 0 THEN CircSteps(CircIncrement(c), n - 1)
  ELSE CircSteps(CircDecrement(c), n + 1)

\* Same front position, same window contents and same winding.
SameCircularState(a, b) ==
  /\ FrontIterator(a) = FrontIterator(b)
  /\ CircDereference(base, a) = CircDereference(base, b)
  /\ a.winding_ = b.winding_

\* C25: for the circular windowed cursor (L >= N), bulk Advance(n) is
\* equivalent to unit stepping: from every state reachable from begin(),
\* Advance(n) yields the same front position, the same window contents and
\* the same winding as n Increments (n >= 0) or |n| Decrements (n < 0),
\* including for |n| spanning several full passes and for N > 1.
C25_CircAdvanceIsUnitStepping ==
  (circular /\ Walking) =>
    \A n \in AdvanceArgs : SameCircularState(CircAdvance(it, n), CircSteps(it, n))

\* A cursor in mid-pass, its window straddling the wrap-around, has been
\* reached by a backward Advance of more than one pass.
C25_Witness ==
  /\ circular /\ Walking /\ N >= 2 /\ Len(base) > N
  /\ last.op = "adv" /\ last.n < 0 - Len(base)
  /\ FrontIterator(it) > Len(base) - N

\* C26: equality of circular windowed cursors distinguishes passes: for a
\* base of length L >= N, the cursors reached from begin() by i and by j
\* Increments (i, j >= 0) are equal if and only if i = j, even when i and j
\* are congruent mod L and so share the same physical front position.  In the
\* range-for loop the cursor is the one reached by Len(seen) Increments; it
\* is compared with the cursor reached by j Increments, for every j up to one
\* pass beyond end().
C26_EqualityDistinguishesPasses ==
  (circular /\ Len(base) >= N) =>
    (pc = "loop" =>
       \A j \in 0..((windings + 1) * Len(base)) :
         (CircIsEqual(it, CircIncrementTimes(rng.begin_, j)) <=> j = Len(seen)))

\* The traversal has completed one pass: the cursor has the front position of
\* begin() and is not equal to it.
C26_Witness ==
  /\ circular /\ pc = "loop" /\ N >= 2 /\ Len(base) > N /\ windings = 2
  /\ Len(seen) = Len(base)
  /\ FrontIterator(it) = FrontIterator(rng.begin_)
  /\ ~CircIsEqual(it, rng.begin_)

\* -------------------------------------------- concat: the representation
\* C27: after construction of begin() or end() and after any sequence of
\* Increment, Decrement and Advance that stays within [begin(), end()], the
\* concatenation cursor's tag never refers to an empty sub-range unless the
\* cursor is exactly the end position of the last sub-range.
C27_TagNeverOnEmpty ==
  \A c \in {it, rng.begin_, rng.end_} :
    RangeIsEmpty(concat, c.index) =>
      /\ c.index = kNumberOfRanges(concat) - 1
      /\ c.pos = EndOf(concat, c.index)

\* The cursors of [begin(), end()] a caller obtains from begin() by Advance
\* and by Increments, and from end() by Decrements.
ReachedCursors(r) ==
  LET total == SumOfLengths(r)
      b == ConcatBeginCtor(r)
      e == ConcatEndCtor(r)
  IN {ConcatAdvance(r, b, g) : g \in {x \in 0..total : IndexOfIterator(r, b) + x <= total}}
       \cup {IncrementTimes(r, b, i) : i \in 0..ConcatDistanceTo(r, b, e)}
       \cup {DecrementTimes(r, e, i) : i \in 0..ConcatDistanceTo(r, b, e)}
       \cup {b, e}

\* C28: every logical position of a concatenation has a single
\* representation: for any two cursors of the same random-access
\* concatenation reached from begin() or end() by Increment, Decrement and
\* Advance within [begin(), end()], IsEqual (same variant tag and same local
\* cursor) holds if and only if their global indices are equal (DistanceTo
\* is 0); in particular no reachable cursor rests at the end of a non-last
\* sub-range.
C28_SingleRepresentation ==
  (category = "random_access" /\ pc = "walk") =>
    /\ \A c \in ReachedCursors(concat) :
         ConcatIsEqual(it, c) <=> (ConcatDistanceTo(concat, it, c) = 0)
    /\ it.pos = EndOf(concat, it.index) => it.index = kNumberOfRanges(concat) - 1

\* The cursor was stepped back from end() across two trailing empty
\* sub-ranges onto the last element of a non-last sub-range.
C28_Witness ==
  /\ category = "random_access" /\ pc = "walk" /\ last = Op("dec", 0)
  /\ kNumberOfRanges(concat) >= 4
  /\ it.index = kNumberOfRanges(concat) - 3
  /\ it.pos = EndOf(concat, it.index) - 1
  /\ RangeIsEmpty(concat, it.index + 1) /\ RangeIsEmpty(concat, it.index + 2)
  /\ RangeIsEmpty(concat, 0)

\* --------------------------------------- circular windowed: stored cursors
\* C29: for the circular windowed cursor over a base of length L >= N, in
\* every state reachable from begin() or end() by any sequence of Increment,
\* Decrement and Advance, all N stored cursors lie within [begin, end) of the
\* base (none equals end), and the cursor at logical slot j is at base
\* position (front + j) mod L.
C29_StoredCursorsInRange ==
  (circular /\ Len(base) >= N) =>
    \A c \in {it, rng.begin_, rng.end_} :
      /\ \A k \in 0..(N - 1) :
           c.base_iter_.iterators_[k] >= c.it_begin_ /\ c.base_iter_.iterators_[k] < c.it_end_
      /\ \A j \in 0..(N - 1) :
           ProxyCell(c.base_iter_, j) = (FrontIterator(c) + j) % Len(base)

\* A backward Advance of more than one pass from end() has left the window
\* straddling the wrap-around, the array of cursors rotated.
C29_Witness ==
  /\ circular /\ Walking /\ N = 3 /\ Len(base) > N
  /\ last.op = "adv" /\ last.n < 0 - Len(base)
  /\ it.base_iter_.offset_ = 2
  /\ FrontIterator(it) = Len(base) - 1

\* ----------------------------------------- linear windowed: equal cursors
\* C30: for the linear windowed range with L >= N, cursors that compare
\* equal dereference to the same window: any cursor reached from begin() or
\* from end() by Increment, Decrement and Advance within [begin(), end()]
\* that is equal (IsEqual) to begin()+i, 0 <= i <= L-N, holds its N cursors
\* at the consecutive base positions i..i+N-1 and dereferences to
\* base[i..i+N-1]; this includes end()-k and the cursors obtained by
\* decrementing end().
C30_EqualCursorsSameWindow ==
  (~circular /\ Walking /\ InLinearRange(it)) =>
    \A i \in 0..(Len(base) - N) :
      AdjIsEqual(it, AdjAdvance(rng.begin_, i)) =>
        /\ \A j \in 0..(N - 1) : ProxyCell(it, j) = i + j
        /\ AdjDereference(base, it) = [j \in 0..(N - 1) |-> base[i + j + 1]]

====
